---- MODULE Spec2Model ----
(***************************************************************************)
(* A model of ronbun (src/ronbun/readme.py), the generator of the          *)
(* per-language README pages of the Sample Programs repository.            *)
(*                                                                         *)
(* Text is a sequence of strings: every element is either one character    *)
(* of a value that the code processes character by character (a project    *)
(* name, a language name) or one literal chunk of a format string.         *)
(***************************************************************************)
EXTENDS Integers, Sequences, FiniteSets, TLC

VARIABLES
    pc,      \* position of main(): "start", "repo", "build", "dump", "done", "error"
             \* ("idle" when only a helper function is called)
    args,    \* the tuple returned by _get_args(): <<path, log>>
    repo,    \* the Repo main() holds: approved projects and language collections
    todo,    \* what the running for loop still has to visit
    pages,   \* ReadMeCatalog.pages, keys in insertion order with their documents
    files,   \* README files on disk, directory -> document written there
    err,     \* the exception that ended the run ("none" while it runs)
    builds,  \* how many times _build_readmes has been started
    call,    \* latest direct call of a helper function: its input and result
    prev     \* the direct call before that one

vars == <<pc, args, repo, todo, pages, files, err, builds, call, prev>>

(***************************************************************************)
(* Bounds of the model.                                                    *)
(***************************************************************************)
MaxCount == 6
MaxIdLen == 4
MaxMissing == 2
MaxProjects == 2
MaxBuilds == 2

(***************************************************************************)
(* Sequence helpers.                                                       *)
(***************************************************************************)
RECURSIVE Flatten(_)
Flatten(ss) == IF ss = <<>> THEN <<>> ELSE Head(ss) \o Flatten(Tail(ss))

Range(s) == {s[k] : k \in 1..Len(s)}

NoCall == [fn |-> "none"]

StartsWith(s, t) == Len(t) <= Len(s) /\ SubSeq(s, 1, Len(t)) = t

Drop(s, n) == SubSeq(s, n + 1, Len(s))

\* str.split(sep) for a non-empty sep: the pieces between the occurrences of
\* sep, found left to right without overlap (cur is the piece being read).
RECURSIVE SplitOn(_, _, _)
SplitOn(s, sep, cur) ==
    IF s = <<>> THEN <<cur>>
    ELSE IF StartsWith(s, sep) THEN <<cur>> \o SplitOn(Drop(s, Len(sep)), sep, <<>>)
    ELSE SplitOn(Tail(s), sep, Append(cur, Head(s)))

Whitespace == {" "}

\* str.split() without a separator: the maximal runs of non-whitespace.
RECURSIVE SplitWs(_, _)
SplitWs(s, cur) ==
    IF s = <<>> THEN (IF cur = <<>> THEN <<>> ELSE <<cur>>)
    ELSE IF Head(s) \in Whitespace
         THEN (IF cur = <<>> THEN <<>> ELSE <<cur>>) \o SplitWs(Tail(s), <<>>)
         ELSE SplitWs(Tail(s), Append(cur, Head(s)))

\* sep.join(parts)
RECURSIVE Join(_, _)
Join(sep, parts) ==
    IF parts = <<>> THEN <<>>
    ELSE IF Len(parts) = 1 THEN parts[1]
    ELSE parts[1] \o sep \o Join(sep, Tail(parts))

\* Code points of the characters the model uses.
Ord(c) ==
    CASE c = " " -> 32 [] c = "#" -> 35 [] c = "+" -> 43 [] c = "-" -> 45
      [] c = "A" -> 65 [] c = "B" -> 66 [] c = "C" -> 67
      [] c = "a" -> 97 [] c = "b" -> 98 [] c = "c" -> 99

LowerChar(c) ==
    CASE c = "A" -> "a" [] c = "B" -> "b" [] c = "C" -> "c" [] OTHER -> c

UpperChar(c) ==
    CASE c = "a" -> "A" [] c = "b" -> "B" [] c = "c" -> "C" [] OTHER -> c

IsCased(c) == c \in {"a", "b", "c", "A", "B", "C"}

\* str.lower()
Lower(s) == [k \in 1..Len(s) |-> LowerChar(s[k])]

\* str.title(): a cased character is upper-cased when the character before
\* it is not cased (or there is none), and lower-cased otherwise.
Title(s) ==
    [k \in 1..Len(s) |->
        IF k = 1 \/ ~IsCased(s[k - 1]) THEN UpperChar(s[k]) ELSE LowerChar(s[k])]

\* s < t for Python strings: lexicographic by code point.
RECURSIVE StrLess(_, _)
StrLess(s, t) ==
    IF t = <<>> THEN FALSE
    ELSE IF s = <<>> THEN TRUE
    ELSE IF Head(s) = Head(t) THEN StrLess(Tail(s), Tail(t))
    ELSE Ord(Head(s)) < Ord(Head(t))

StrLeq(s, t) == s = t \/ StrLess(s, t)

(***************************************************************************)
(* _generate_program_list_header                                           *)
(***************************************************************************)
\* a / b of two ints is the double nearest to the quotient.  The model keeps
\* the quotient exact: for counts below 2^50 the rounding error of a / b,
\* scaled by 4, is too small to carry the product to or across an integer
\* that the exact value does not reach, and a == b gives exactly 1.0.
TrueDiv(a, b) == [num |-> a, den |-> b]

FloatMul(q, k) == [num |-> q.num * k, den |-> q.den]

\* int(x) truncates toward zero.
IntOf(q) ==
    IF q.num >= 0 THEN q.num \div q.den ELSE -((-q.num) \div q.den)

emojis == <<":disappointed:", ":thinking:", ":relaxed:", ":smile:", ":partying_face:">>

DigitChar == <<"0", "1", "2", "3", "4", "5", "6", "7", "8", "9">>

\* f"{n}" of a non-negative int: its decimal digits.
RECURSIVE Str(_)
Str(n) == IF n < 10 THEN <<DigitChar[n + 1]>> ELSE Str(n \div 10) \o <<DigitChar[(n % 10) + 1]>>

\* The index scaled by the number of indicators instead of by 4.
StatusIndexTimesLen(program_count, total_program_count) ==
    IntOf(FloatMul(TrueDiv(program_count, total_program_count), Len(emojis)))

StatusIndex(program_count, total_program_count) ==
    IntOf(FloatMul(TrueDiv(program_count, total_program_count), 4))

\* Python list indexing: -len..len-1 are valid, anything else raises.
ListIndexOk(lst, i) == i >= -Len(lst) /\ i < Len(lst)

ListGet(lst, i) == IF i >= 0 THEN lst[i + 1] ELSE lst[Len(lst) + i + 1]

HeaderText(program_count, total_program_count, emoji) ==
    <<"Sample Programs List - ">> \o Str(program_count) \o <<"/">>
        \o Str(total_program_count) \o <<" ", emoji>>

\* The result of a call: the exception raised ("none" when it returns), the
\* index i and the returned text.
_generate_program_list_header(program_count, total_program_count) ==
    IF total_program_count = 0
    THEN [exc |-> "ZeroDivisionError", i |-> 0, text |-> <<>>]
    ELSE LET i == StatusIndex(program_count, total_program_count)
         IN  IF ~ListIndexOk(emojis, i)
             THEN [exc |-> "IndexError", i |-> i, text |-> <<>>]
             ELSE [exc |-> "none", i |-> i,
                   text |-> HeaderText(program_count, total_program_count,
                                       ListGet(emojis, i))]

(***************************************************************************)
(* Values handed over by the repository model (subete): projects, sample   *)
(* programs and language collections.  A project is its identifier, a      *)
(* slug such as hello-world.                                               *)
(***************************************************************************)
ProjectChars == {"a", "-"}

\* The identifiers of at most n characters: they begin and end with a
\* character of a word.
Ids(n) ==
    {id \in UNION {[1..k -> ProjectChars] : k \in 1..n} :
        id[1] # "-" /\ id[Len(id)] # "-"}

\* Project.name(): the separators replaced by spaces, the words title-cased.
ProjectName(project) ==
    Title([k \in 1..Len(project) |-> IF project[k] = "-" THEN " " ELSE project[k]])

\* Project.requirements_url()
requirements_url(project) == <<"https://sampleprograms.io/projects/">> \o project

\* LanguageCollection.pathlike_name(): the name of the language's directory.
pathlike_name(name) ==
    Flatten([k \in 1..Len(name) |->
        CASE name[k] = "#" -> <<"-", "sharp">>
          [] name[k] = "+" -> <<"-", "plus">>
          [] OTHER -> <<LowerChar(name[k])>>])

\* f"{program}": the program's project and language.
ProgramStr(program) == ProjectName(program.project) \o <<" ", "in", " ">> \o program.language

\* SampleProgram.documentation_url()
documentation_url(program) ==
    <<"https://sampleprograms.io/projects/">> \o program.project
        \o <<"/">> \o pathlike_name(program.language)

\* SampleProgram.article_issue_query_url()
article_issue_query_url(program) ==
    <<"https://github.com/TheRenegadeCoder/sample-programs-website/issues?q=">>
        \o program.project \o <<"+">> \o pathlike_name(program.language)

(***************************************************************************)
(* Paragraphs of the document builder (snakemd): a paragraph is a          *)
(* sequence of inline elements, each a text with an optional link.         *)
(***************************************************************************)
NoLink == <<>>

Inline(text, link) == [text |-> text, link |-> link]

Paragraph(texts) == [k \in 1..Len(texts) |-> Inline(texts[k], NoLink)]

\* Paragraph.insert_link(target, url): every inline element whose text holds
\* target is cut at each occurrence, and the occurrences become links.
LinkPieces(items, target, url) ==
    Flatten([k \in 1..Len(items) |->
        IF k = 1 THEN <<Inline(items[k], NoLink)>>
        ELSE <<Inline(target, url), Inline(items[k], NoLink)>>])

insert_link(paragraph, target, url) ==
    Flatten([k \in 1..Len(paragraph) |->
        LET items == SplitOn(paragraph[k].text, target, <<>>)
        IN  IF Len(items) > 1 THEN LinkPieces(items, target, url)
            ELSE <<paragraph[k]>>])

\* Paragraph.replace(target, replacement): str.replace in every element.
replace(paragraph, target, replacement) ==
    [k \in 1..Len(paragraph) |->
        Inline(Join(replacement, SplitOn(paragraph[k].text, target, <<>>)),
               paragraph[k].link)]

\* Paragraph.replace_link(target_link, replacement_link)
replace_link(paragraph, target_link, replacement_link) ==
    [k \in 1..Len(paragraph) |->
        IF paragraph[k].link = target_link
        THEN Inline(paragraph[k].text, replacement_link)
        ELSE paragraph[k]]

(***************************************************************************)
(* _generate_program_list                                                  *)
(***************************************************************************)
\* The line with the icon patched and the link left as it was built.
ProgramLineIconOnly(program) ==
    LET program_name == ProgramStr(program)
        program_line ==
            insert_link(
                insert_link(
                    Paragraph(<< <<":white_check_mark:", " ">> \o program_name
                                  \o <<" ", "[", "Requirements", "]">> >>),
                    program_name, documentation_url(program)),
                <<"Requirements">>, requirements_url(program.project))
    IN  IF ~program.has_docs
        THEN replace(program_line, <<":white_check_mark:">>, <<":warning:">>)
        ELSE program_line

ProgramLine(program) ==
    LET program_name == ProgramStr(program)
        program_line ==
            insert_link(
                insert_link(
                    Paragraph(<< <<":white_check_mark:", " ">> \o program_name
                                  \o <<" ", "[", "Requirements", "]">> >>),
                    program_name, documentation_url(program)),
                <<"Requirements">>, requirements_url(program.project))
    IN  IF ~program.has_docs
        THEN replace_link(
                 replace(program_line, <<":white_check_mark:">>, <<":warning:">>),
                 documentation_url(program), article_issue_query_url(program))
        ELSE program_line

_generate_program_list(language) ==
    [k \in 1..Len(language.programs) |-> ProgramLine(language.programs[k])]

(***************************************************************************)
(* _generate_missing_program_list                                          *)
(***************************************************************************)
issue_url_template_base ==
    <<"https://github.com/TheRenegadeCoder/sample-programs/issues/new">>

\* issue_url_template_query.format(label=..., project=..., language=...)
issue_url_template_query(label, project, language) ==
    <<"?assignees=&labels=enhancement,">> \o label
        \o <<"&template=code-snippet-request.md&title=Add+">> \o project
        \o <<"+in+">> \o language

\* urllib.parse.quote: letters, digits and _.-~/ are kept, every other
\* character becomes % and its two hexadecimal digits.
Quote(s) ==
    Flatten([k \in 1..Len(s) |->
        CASE s[k] = " " -> <<"%", "2", "0">>
          [] s[k] = "#" -> <<"%", "2", "3">>
          [] s[k] = "+" -> <<"%", "2", "B">>
          [] OTHER -> <<s[k]>>])

\* list.sort(key=lambda x: x.name()): a stable sort, each element placed
\* behind the elements whose key is not greater.
RECURSIVE InsertByName(_, _)
InsertByName(sorted, project) ==
    IF sorted = <<>> THEN <<project>>
    ELSE IF StrLess(ProjectName(project), ProjectName(Head(sorted)))
         THEN <<project>> \o sorted
         ELSE <<Head(sorted)>> \o InsertByName(Tail(sorted), project)

\* The list left in the order it came in.
SortSkipped(projects) == projects

RECURSIVE SortByName(_)
SortByName(projects) ==
    IF projects = <<>> THEN <<>>
    ELSE InsertByName(SortByName(SubSeq(projects, 1, Len(projects) - 1)),
                      projects[Len(projects)])

\* The query token made of the first word of the name alone.
ProgramQueryFirstWord(program_name) ==
    LET words == SplitWs(program_name, <<>>)
    IN  IF words = <<>> THEN <<>> ELSE words[1]

ProgramQuery(program_name) == Join(<<"+">>, SplitWs(program_name, <<>>))

MissingUrl(language_name, program) ==
    LET program_query == ProgramQuery(ProjectName(program))
    IN  issue_url_template_base
            \o issue_url_template_query(Lower(program_query), program_query,
                                        Quote(language_name))

MissingItem(language_name, program) ==
    LET program_name == ProjectName(program)
    IN  insert_link(
            insert_link(
                Paragraph(<< <<":x:", " ">> \o program_name
                              \o <<" ", "[", "Requirements", "]">> >>),
                program_name, MissingUrl(language_name, program)),
            <<"Requirements">>, requirements_url(program))

\* The call sorts missing_programs in place and returns the lines: `list` is
\* the caller's list after the call, `items` the value returned.
_generate_missing_program_list(language_name, missing_programs) ==
    LET sorted == SortByName(missing_programs)
    IN  [list |-> sorted,
         items |-> [k \in 1..Len(sorted) |-> MissingItem(language_name, sorted[k])]]

(***************************************************************************)
(* Documents of the document builder: a document is a sequence of blocks,  *)
(* each block a kind, a heading level and its paragraphs.                  *)
(***************************************************************************)
Heading(text, level) ==
    [kind |-> "heading", level |-> level, items |-> <<Paragraph(<<text>>)>>]

Block(paragraph) == [kind |-> "paragraph", level |-> 0, items |-> <<paragraph>>]

MDList(list_items) == [kind |-> "list", level |-> 0, items |-> list_items]

Code(text) == [kind |-> "code", level |-> 0, items |-> <<Paragraph(<<text>>)>>]

HorizontalRule == [kind |-> "hr", level |-> 0, items |-> <<>>]

(***************************************************************************)
(* _get_intro_text and _generate_credit                                    *)
(***************************************************************************)
\* LanguageCollection.lang_docs_url()
lang_docs_url(language) ==
    <<"https://sampleprograms.io/languages/">> \o pathlike_name(language.name)

_get_intro_text(language) ==
    LET paragraph ==
            Paragraph(<< <<"Welcome to Sample Programs in ">> \o language.name \o <<"! ">> >>)
        text == Inline(<<"here.">>, lang_docs_url(language))
    IN  IF language.has_docs
        THEN paragraph
                 \o Paragraph(<< <<"To find documentation related to the ">>
                                  \o language.name \o <<" code in this repo, look ">> >>)
                 \o <<text>>
        ELSE paragraph

_generate_credit ==
    insert_link(
        Paragraph(<< <<"This page was generated automatically by the Sample Programs READMEs tool. ",
                       "Find out how to support ", "this project", " on Github.">> >>),
        <<"this project">>,
        <<"https://github.com/TheRenegadeCoder/sample-programs-readmes">>)

(***************************************************************************)
(* ReadMeCatalog._build_readme                                             *)
(***************************************************************************)
total_approved_projects(r) == Cardinality(r.approved)

total_programs(language) == Len(language.programs)

missing_programs_count(language) == Len(language.missing)

\* The heading asked for with the count of the missing programs.
ProgramListHeaderWrongCount(language, total_approved) ==
    _generate_program_list_header(missing_programs_count(language), total_approved)

\* The heading of the programs list as _build_readme asks for it.
ProgramListHeader(language, total_approved) ==
    _generate_program_list_header(total_programs(language), total_approved)

\* The missing programs added only when there are two or more.
HasMissingProgramsOffByOne(language) == missing_programs_count(language) > 1

\* The condition under which _build_readme adds the missing programs.
HasMissingPrograms(language) == missing_programs_count(language) > 0

MissingHeading == Heading(<<"Missing Programs">>, 3)

MissingSection(language, missing_programs_list) ==
    << MissingHeading,
       Block(Paragraph(<< <<"The following list contains all of the approved programs that are not currently implemented in ">>
                           \o language.name
                           \o <<". Click on the name of the project to easily open an issue in GitHub. ",
                                "Alternatively, click requirements to check out the description of the project.">> >>)),
       MDList(missing_programs_list) >>

TestingSection(language) ==
    << Heading(<<"Testing">>, 2) >>
    \o ( IF ~language.testinfo.present
         THEN << Block(Paragraph(<< <<"This language currently does not feature testing. ",
                                      "If you'd like to help in the efforts to test all of the code in this repo, ",
                                      "consider creating a testinfo.yml file with the following information:">> >>)),
                 Code(<<"folder:\n  extension:\n  naming:\n\ncontainer:\n  image:\n  tag:\n  cmd:">>) >>
         ELSE << Block(Paragraph(<< <<"The following list shares details about what we're using to test all Sample Programs in ">>
                                     \o language.name \o <<".">> >>)),
                 MDList(<< Paragraph(<< <<"Docker Image: ", language.testinfo.image>> >>),
                           Paragraph(<< <<"Docker Tag: ", language.testinfo.tag>> >>) >>) >> )
    \o << Block(insert_link(
              Paragraph(<< <<"See the ", "Glotter2 project",
                             " for more information on how to create a testinfo file.">> >>),
              <<"Glotter2 project">>, <<"https://github.com/rzuckerm/glotter2">>)),
          HorizontalRule,
          Block(_generate_credit) >>

\* The result of building one page: the exception raised ("none" when the
\* page is stored), the page, and the language's list of missing programs as
\* the call leaves it.
_build_readme(language, total_approved) ==
    LET program_list == _generate_program_list(language)
        header == ProgramListHeader(language, total_approved)
        missing == _generate_missing_program_list(language.name, language.missing)
        top ==
            << Heading(<<"Sample Programs in ">> \o language.name, 1),
               Block(_get_intro_text(language)),
               Heading(header.text, 2),
               Block(Paragraph(<< <<"In this section, we feature a list of completed and missing programs in ">>
                                   \o language.name
                                   \o <<". See above for the current amount of completed programs in ">>
                                   \o language.name
                                   \o <<". If you see a program that is missing and would like to add it, ",
                                        "please submit an issue, so we can assign it to you.">> >>)),
               Heading(<<"Completed Programs">>, 3),
               Block(insert_link(
                   Paragraph(<< <<"Below, you'll find a list of completed code snippets in ">>
                                 \o language.name
                                 \o <<". Code snippets preceded by :warning: link to a GitHub issue query featuring a possible article request issue. ",
                                      "If an article request issue doesn't exist, we encourage you to create one. ",
                                      "Meanwhile, code snippets preceded by :white_check_mark: link to an existing article which provides further documentation. ",
                                      "To see the list of approved projects, check out the official ",
                                      "Sample Programs projects list", ".">> >>),
                   <<"Sample Programs project list">>,
                   <<"https://sampleprograms.io/projects/">>)),
               MDList(program_list) >>
    IN  IF header.exc # "none"
        THEN [exc |-> header.exc, page |-> <<>>, missing |-> language.missing]
        ELSE IF HasMissingPrograms(language)
        THEN [exc |-> "none",
              page |-> top \o MissingSection(language, missing.items) \o TestingSection(language),
              missing |-> missing.list]
        ELSE [exc |-> "none",
              page |-> top \o TestingSection(language),
              missing |-> language.missing]

(***************************************************************************)
(* Direct calls of _generate_program_list_header: at most two, so that     *)
(* the results of two calls can be compared.                               *)
(***************************************************************************)
NoRepo == [loaded |-> FALSE, approved |-> {}, languages |-> <<>>]

IdleMain ==
    /\ pc = "idle"
    /\ args = [path |-> "", log |-> ""]
    /\ repo = NoRepo
    /\ todo = <<>>
    /\ pages = <<>>
    /\ files = <<>>
    /\ err = "none"
    /\ builds = 0

mainVars == <<pc, args, repo, todo, pages, files, err, builds>>

InitCalls ==
    /\ IdleMain
    /\ call = NoCall
    /\ prev = NoCall

CallHeader ==
    /\ prev = NoCall
    /\ \E c \in 0..MaxCount, t \in 0..MaxCount :
        call' = [fn |-> "header", program_count |-> c, total_program_count |-> t,
                 out |-> _generate_program_list_header(c, t)]
    /\ prev' = call
    /\ UNCHANGED mainVars

NextHeader == CallHeader

SpecHeader == InitCalls /\ [][NextHeader]_vars

(***************************************************************************)
(* Direct calls of _generate_missing_program_list.                         *)
(***************************************************************************)
LanguageNames == << <<"C">>, <<"C", "#">> >>

\* The lists of at most n distinct projects.
DistinctLists(S, n) ==
    UNION {{f \in [1..k -> S] : \A i, j \in 1..k : i # j => f[i] # f[j]} : k \in 0..n}

CallMissing ==
    /\ call = NoCall
    /\ \E name \in Range(LanguageNames), missing_programs \in DistinctLists(Ids(MaxIdLen), MaxMissing) :
        call' = [fn |-> "missing", language |-> name, missing_programs |-> missing_programs,
                    out |-> _generate_missing_program_list(name, missing_programs)]
    /\ UNCHANGED <<prev, mainVars>>

NextMissing == CallMissing

SpecMissing == InitCalls /\ [][NextMissing]_vars

(***************************************************************************)
(* main                                                                    *)
(***************************************************************************)
\* The module attributes of logging that the names given on the command
\* line can reach, with the type of their value.
LoggingAttr(name) ==
    CASE name = "WARNING" -> [found |-> TRUE, type |-> "int"]
      [] name = "DEBUG" -> [found |-> TRUE, type |-> "int"]
      [] name = "BASIC_FORMAT" -> [found |-> TRUE, type |-> "str"]
      [] OTHER -> [found |-> FALSE, type |-> "NoneType"]

\* str.upper() of the values of --log that the model passes.
UpperWord(w) ==
    CASE w = "warning" -> "WARNING"
      [] w = "basic_format" -> "BASIC_FORMAT"
      [] w = "verbose" -> "VERBOSE"
      [] OTHER -> w

LogArgs == {"warning", "verbose", "basic_format"}

\* isinstance(getattr(logging, args[1].upper(), None), int)
LevelIsInt(log) ==
    LET numeric_level == LoggingAttr(UpperWord(log))
    IN  numeric_level.found /\ numeric_level.type = "int"

\* The repositories main() can be pointed at.
SampleProjects == << <<"a", "-", "a">>, <<"a">>, <<"a", "a">> >>

RepoProjects == {SampleProjects[k] : k \in 1..MaxProjects}

Perms(S) == {f \in [1..Cardinality(S) -> S] : \A i, j \in 1..Cardinality(S) : i # j => f[i] # f[j]}

TestInfo(name) ==
    IF name = <<"C">>
    THEN [present |-> TRUE, image |-> "gcc", tag |-> "8.3"]
    ELSE [present |-> FALSE, image |-> "", tag |-> ""]

\* A language collection: its sample programs in the collection's order and
\* its missing programs, the approved projects it does not implement, in
\* the order the repository model happens to list them.
LanguageCollection(name, implemented, documented, missing) ==
    [name |-> name,
     programs |-> [k \in 1..Len(implemented) |->
                     [language |-> name, project |-> implemented[k],
                      has_docs |-> implemented[k] \in documented]],
     missing |-> missing,
     has_docs |-> name # <<"C">>,
     testinfo |-> TestInfo(name)]

\* The programs of a collection are kept in the order of their names.
InCollectionOrder(S) ==
    CHOOSE p \in Perms(S) :
        \A i, j \in 1..Len(p) : i < j => StrLess(ProjectName(p[i]), ProjectName(p[j]))

LanguageCollections(name, approved) ==
    {LanguageCollection(name, InCollectionOrder(idm[1]), idm[2], idm[3]) :
        idm \in UNION {UNION {{<<i, d, m>> : m \in Perms(approved \ i)}
                              : d \in SUBSET i}
                       : i \in SUBSET RepoProjects}}

\* The collections of the languages `names`, one of each.
RECURSIVE Collections(_, _)
Collections(names, approved) ==
    IF names = <<>> THEN {<<>>}
    ELSE {<<l>> \o rest : l \in LanguageCollections(Head(names), approved),
                          rest \in Collections(Tail(names), approved)}

\* dict[key] = value: an existing key keeps its place.
DictHas(dict, key) == \E k \in 1..Len(dict) : dict[k].key = key

\* An entry added whether or not the key is there already.
DictAppend(dict, key, value) == Append(dict, [key |-> key, value |-> value])

DictSet(dict, key, value) ==
    IF DictHas(dict, key)
    THEN [k \in 1..Len(dict) |->
            IF dict[k].key = key THEN [key |-> key, value |-> value] ELSE dict[k]]
    ELSE Append(dict, [key |-> key, value |-> value])

\* f"{args[0]}/archive/{language[0]}/{language}"
Directory(path, language) == <<path, "/archive/", language[1], "/">> \o language

Init ==
    /\ pc = "start"
    /\ args \in [path : {"sample-programs"}, log : LogArgs]
    /\ repo = NoRepo
    /\ todo = <<>>
    /\ pages = <<>>
    /\ files = <<>>
    /\ err = "none"
    /\ builds = 0
    /\ call = NoCall
    /\ prev = NoCall

\* main, lines 23-26: the log level is validated.
CheckLogLevel ==
    /\ pc = "start"
    /\ IF LevelIsInt(args.log)
       THEN pc' = "repo" /\ err' = err
       ELSE pc' = "error" /\ err' = "ValueError"
    /\ UNCHANGED <<args, repo, todo, pages, files, builds, call, prev>>

\* Repo(sample_programs_repo_dir=args[0]) raises: the root cannot be read.
LoadRepoFails ==
    /\ pc = "repo"
    /\ pc' = "error"
    /\ err' = "RepoError"
    /\ UNCHANGED <<args, repo, todo, pages, files, builds, call, prev>>

\* Repo(...) returns and ReadMeCatalog.__init__ starts _build_readmes.
LoadRepo ==
    /\ pc = "repo"
    /\ \E approved \in SUBSET RepoProjects :
        \E languages \in Collections(LanguageNames, approved) :
            repo' = [loaded |-> TRUE, approved |-> approved, languages |-> languages]
    /\ pages' = <<>>
    /\ todo' = [k \in 1..Len(LanguageNames) |-> k]
    /\ builds' = 1
    /\ pc' = "build"
    /\ UNCHANGED <<args, files, err, call, prev>>

\* One pass of the loop of _build_readmes: _build_readme(language).
BuildReadme ==
    /\ pc = "build"
    /\ todo # <<>>
    /\ LET language == repo.languages[Head(todo)]
           built == _build_readme(language, total_approved_projects(repo))
       IN  IF built.exc # "none"
           THEN /\ pc' = "error"
                /\ err' = built.exc
                /\ UNCHANGED <<repo, todo, pages>>
           ELSE /\ pages' = DictSet(pages, pathlike_name(language.name), built.page)
                /\ repo' = [repo EXCEPT !.languages[Head(todo)].missing = built.missing]
                /\ todo' = Tail(todo)
                /\ UNCHANGED <<pc, err>>
    /\ UNCHANGED <<args, files, builds, call, prev>>

\* The loop over the pages entered as soon as one page is there.
StartDumpEarly ==
    /\ pc = "build"
    /\ pages # <<>>
    /\ pc' = "dump"
    /\ todo' = pages
    /\ UNCHANGED <<args, repo, pages, files, err, builds, call, prev>>

\* _build_readmes and __init__ return; main starts the loop over pages.items().
StartDump ==
    /\ pc = "build"
    /\ todo = <<>>
    /\ pc' = "dump"
    /\ todo' = pages
    /\ UNCHANGED <<args, repo, pages, files, err, builds, call, prev>>

\* One pass of the loop of main: page.dump("README", directory=...).
Dump ==
    /\ pc = "dump"
    /\ todo # <<>>
    /\ files' = DictSet(files, Directory(args.path, Head(todo).key), Head(todo).value)
    /\ todo' = Tail(todo)
    /\ UNCHANGED <<pc, args, repo, pages, err, builds, call, prev>>

\* main returns.
Finish ==
    /\ pc = "dump"
    /\ todo = <<>>
    /\ pc' = "done"
    /\ UNCHANGED <<args, repo, todo, pages, files, err, builds, call, prev>>

Next ==
    \/ CheckLogLevel
    \/ LoadRepoFails
    \/ LoadRepo
    \/ BuildReadme
    \/ StartDump
    \/ Dump
    \/ Finish

Spec == Init /\ [][Next]_vars

\* _build_readmes is run once more on the catalog it has filled.
Rebuild ==
    /\ pc = "build"
    /\ todo = <<>>
    /\ builds < MaxBuilds
    /\ builds' = builds + 1
    /\ todo' = [k \in 1..Len(repo.languages) |-> k]
    /\ UNCHANGED <<pc, args, repo, pages, files, err, call, prev>>

NextRegen == Next \/ Rebuild

SpecRegen == Init /\ [][NextRegen]_vars

(***************************************************************************)
(* Reading a page back.                                                    *)
(***************************************************************************)
HasBlock(page, block) == \E k \in 1..Len(page) : page[k] = block

IndexOfBlock(page, block) == CHOOSE k \in 1..Len(page) : page[k] = block

\* The lines of the list of the section that `heading` opens.
SectionLines(page, heading) ==
    IF HasBlock(page, heading) THEN page[IndexOfBlock(page, heading) + 2].items ELSE <<>>

CompletedLines(page) == SectionLines(page, Heading(<<"Completed Programs">>, 3))

MissingLines(page) == SectionLines(page, MissingHeading)

\* The project a line is about, read from its Requirements link.
LineProject(line) ==
    Drop(line[CHOOSE k \in 1..Len(line) : line[k].text = <<"Requirements">>].link, 1)

\* The links of a line other than its Requirements link.
LineNameLinks(line) ==
    {line[k].link : k \in {j \in 1..Len(line) :
                              line[j].link # NoLink /\ line[j].text # <<"Requirements">>}}

\* The counts and the indicator that the heading of the programs list shows.
ShownCounts(page) ==
    {cti \in (0..Cardinality(RepoProjects)) \X (0..Cardinality(RepoProjects))
                \X (0..(Len(emojis) - 1)) :
        HasBlock(page, Heading(HeaderText(cti[1], cti[2], emojis[cti[3] + 1]), 2))}

Icons == {":white_check_mark:", ":warning:", ":x:"}

\* How many times the icons occur in the text of a line.
RECURSIVE CountIn(_, _)
CountIn(text, S) ==
    IF text = <<>> THEN 0
    ELSE (IF Head(text) \in S THEN 1 ELSE 0) + CountIn(Tail(text), S)

LineText(line) == Flatten([k \in 1..Len(line) |-> line[k].text])

LanguageOfKey(key) ==
    CHOOSE l \in Range(repo.languages) : pathlike_name(l.name) = key

Implemented(language) == {language.programs[k].project : k \in 1..Len(language.programs)}

HeaderCalled(c) == c.fn = "header"

InRange(c) ==
    /\ HeaderCalled(c)
    /\ c.total_program_count > 0
    /\ c.program_count <= c.total_program_count

(***************************************************************************)
(* C1: for 0 <= completed <= total and total > 0 the status index is in    *)
(* 0..4, so the indicator exists; it is 4 when completed == total and 0    *)
(* when completed == 0; and of two calls the one with the larger ratio     *)
(* completed/total never gets the smaller index.                           *)
(***************************************************************************)
C1_StatusIndex ==
    /\ InRange(call) =>
        /\ call.out.exc = "none"
        /\ call.out.i \in 0..4
        /\ call.out.text = HeaderText(call.program_count, call.total_program_count,
                                      emojis[call.out.i + 1])
        /\ call.program_count = call.total_program_count => call.out.i = 4
        /\ call.program_count = 0 => call.out.i = 0
    /\ (InRange(call) /\ InRange(prev)
          /\ prev.program_count * call.total_program_count
                <= call.program_count * prev.total_program_count)
        => prev.out.i <= call.out.i

C1_Witness ==
    /\ InRange(call) /\ InRange(prev)
    /\ call.program_count = call.total_program_count
    /\ prev.program_count > 0
    /\ prev.program_count * 2 = prev.total_program_count
    /\ prev.out.i = 2
    /\ call.out.i = 4

(***************************************************************************)
(* C10: for total > 0, completed > total included, the status index is     *)
(* floor(completed*4/total) clamped to 0..4 and the indicator is found.    *)
(***************************************************************************)
Clamp(x, lo, hi) == IF x < lo THEN lo ELSE IF x > hi THEN hi ELSE x

C10_ClampedIndex ==
    (HeaderCalled(call) /\ call.total_program_count > 0) =>
        /\ call.out.exc = "none"
        /\ call.out.i = Clamp((call.program_count * 4) \div call.total_program_count, 0, 4)

(***************************************************************************)
(* C2: with no approved project at all, building a language's report does  *)
(* not fail: the report is produced, with the lowest status indicator.     *)
(***************************************************************************)
C2_EmptyApprovedBuilds ==
    (repo.loaded /\ repo.approved = {}) =>
        /\ err = "none"
        /\ pc # "error"
        /\ \A k \in 1..Len(pages) :
              \E c \in 0..Cardinality(RepoProjects) : <<c, 0, 0>> \in ShownCounts(pages[k].value)
        /\ (pc \in {"dump", "done"} => Len(pages) = Len(repo.languages))

(***************************************************************************)
(* C3: no README is written unless the log level was valid, the            *)
(* repository was loaded and every language's report was built; a run that *)
(* ends with an error has written nothing, and a run that ends has written *)
(* the README of every language or of none.                                *)
(***************************************************************************)
AllBuilt == \A l \in Range(repo.languages) : DictHas(pages, pathlike_name(l.name))

Written(l) == DictHas(files, Directory(args.path, pathlike_name(l.name)))

Partitioned(page) ==
    LET completed == {LineProject(line) : line \in Range(CompletedLines(page))}
        missing == {LineProject(line) : line \in Range(MissingLines(page))}
    IN  /\ completed \cap missing = {}
        /\ completed \cup missing = repo.approved
        /\ ShownCounts(page) # {}
        /\ \A cti \in ShownCounts(page) :
              /\ cti[1] = Len(CompletedLines(page))
              /\ cti[1] + Len(MissingLines(page)) = cti[2]

C4_Partition ==
    \A k \in 1..Len(pages) :
        repo.approved # {} => Partitioned(pages[k].value)

\* C4 as amended: the same, for the languages all of whose programs are
\* approved projects.
C4_PartitionOfApproved ==
    \A k \in 1..Len(pages) :
        (repo.approved # {} /\ Implemented(LanguageOfKey(pages[k].key)) \subseteq repo.approved)
            => Partitioned(pages[k].value)

C4_Witness ==
    \E k \in 1..Len(pages) :
        /\ Implemented(LanguageOfKey(pages[k].key)) \subseteq repo.approved
        /\ Len(CompletedLines(pages[k].value)) = 1
        /\ Len(MissingLines(pages[k].value)) = 1
        /\ <<1, 2, 2>> \in ShownCounts(pages[k].value)

(***************************************************************************)
(* C5: a report holds the Missing Programs heading, its paragraph and its  *)
(* list exactly when the language misses a program; a language that        *)
(* implements exactly the approved projects has no such section, the       *)
(* Testing heading follows the completed list, and its indicator is the    *)
(* last one.                                                               *)
(***************************************************************************)
C5_MissingSection ==
    \A k \in 1..Len(pages) :
        LET page == pages[k].value
            language == LanguageOfKey(pages[k].key)
            at == IndexOfBlock(page, Heading(<<"Completed Programs">>, 3))
        IN  /\ HasBlock(page, MissingHeading) <=> missing_programs_count(language) > 0
            /\ HasBlock(page, MissingHeading) =>
                  /\ page[at + 3] = MissingHeading
                  /\ page[at + 4].kind = "paragraph"
                  /\ page[at + 5].kind = "list"
                  /\ Len(page[at + 5].items) = missing_programs_count(language)
                  /\ page[at + 6] = Heading(<<"Testing">>, 2)
            /\ ~HasBlock(page, MissingHeading) =>
                  page[at + 3] = Heading(<<"Testing">>, 2)
            /\ Implemented(language) = repo.approved =>
                  /\ ~HasBlock(page, MissingHeading)
                  /\ \A cti \in ShownCounts(page) : cti[3] = 4
                  /\ ShownCounts(page) # {}

C5_Witness ==
    /\ Len(pages) = 2
    /\ Implemented(LanguageOfKey(pages[1].key)) = repo.approved
    /\ ~HasBlock(pages[1].value, MissingHeading)
    /\ HasBlock(pages[2].value, MissingHeading)
    /\ Len(MissingLines(pages[2].value)) = 2

(***************************************************************************)
(* C6: the line of an implemented program carries one icon and one name    *)
(* link: the verified icon and the documentation URL when the program has  *)
(* a documentation page, otherwise the warning icon and the issue-query    *)
(* URL, the documentation URL gone; its Requirements link is the           *)
(* program's requirements URL.                                             *)
(***************************************************************************)
LineOk(line, program) ==
    LET icon == IF program.has_docs THEN ":white_check_mark:" ELSE ":warning:"
        url == IF program.has_docs THEN documentation_url(program)
               ELSE article_issue_query_url(program)
    IN  /\ CountIn(LineText(line), Icons) = 1
        /\ CountIn(LineText(line), {icon}) = 1
        /\ Cardinality({j \in 1..Len(line) : line[j].link # NoLink}) = 2
        /\ \E j \in 1..Len(line) :
              line[j] = Inline(ProgramStr(program), url)
        /\ \E j \in 1..Len(line) :
              line[j] = Inline(<<"Requirements">>, requirements_url(program.project))
        /\ ~program.has_docs =>
              \A j \in 1..Len(line) : line[j].link # documentation_url(program)

C6_ProgramLines ==
    \A k \in 1..Len(pages) :
        LET lines == CompletedLines(pages[k].value)
            language == LanguageOfKey(pages[k].key)
        IN  /\ Len(lines) = Len(language.programs)
            /\ \A n \in 1..Len(lines) : LineOk(lines[n], language.programs[n])

C6_Witness ==
    \E k \in 1..Len(pages) :
        LET language == LanguageOfKey(pages[k].key)
        IN  /\ Len(language.programs) = 2
            /\ language.programs[1].has_docs
            /\ ~language.programs[2].has_docs
            /\ CountIn(LineText(CompletedLines(pages[k].value)[2]), {":warning:"}) = 1

(***************************************************************************)
(* C7: the list returned by _generate_missing_program_list is ordered by   *)
(* the programs' names, holds one line for each missing program and no     *)
(* line twice.                                                             *)
(***************************************************************************)
MissingCalled == call.fn = "missing"

C7_SortedMissingList ==
    MissingCalled =>
        LET items == call.out.items
        IN  /\ Len(items) = Len(call.missing_programs)
            /\ \A p \in Range(call.missing_programs) :
                  Cardinality({k \in 1..Len(items) : LineProject(items[k]) = p}) = 1
            /\ \A i, j \in 1..Len(items) :
                  i < j => /\ StrLeq(ProjectName(LineProject(items[i])),
                                     ProjectName(LineProject(items[j])))
                           /\ items[i] # items[j]

C7_Witness ==
    /\ MissingCalled
    /\ Len(call.missing_programs) = 2
    /\ StrLess(ProjectName(call.missing_programs[2]), ProjectName(call.missing_programs[1]))
    /\ LineProject(call.out.items[1]) = call.missing_programs[2]

(***************************************************************************)
(* C8: within one language, two distinct missing programs never get the    *)
(* same issue-creation URL.                                                *)
(***************************************************************************)
DistinctUrls(items) ==
    \A i, j \in 1..Len(items) :
        i # j => LineNameLinks(items[i]) \cap LineNameLinks(items[j]) = {}

IsSlug(project) ==
    /\ project[1] # "-"
    /\ project[Len(project)] # "-"
    /\ \A k \in 1..(Len(project) - 1) : ~(project[k] = "-" /\ project[k + 1] = "-")

C9_Regeneration ==
    [][ /\ \A k \in 1..Len(pages) : k <= Len(pages') /\ pages'[k] = pages[k]
        /\ Len(pages') <= Len(repo'.languages)
        /\ \A i, j \in 1..Len(pages') : i # j => pages'[i].key # pages'[j].key ]_vars

C9_Witness ==
    /\ builds = 2
    /\ pc = "build"
    /\ todo = <<>>
    /\ Len(pages) = Len(repo.languages)
    /\ \E k \in 1..Len(pages) : Len(MissingLines(pages[k].value)) = 2

====
